---- MODULE Spec2Model ----
(***************************************************************************)
(* TrustPilot.get_trustscore (src/lambda/trustpilot/classes.py) and its    *)
(* caller lambda_handler (src/lambda/lambda_function.py).                  *)
(*                                                                         *)
(* Real numbers are binary fixed point with SCALE = 2^10 units per 1.0,    *)
(* every float operation rounded to the nearest unit.  Like an IEEE double *)
(* a fixed-point value can sit exactly on a rounding tie of round(x, 1)    *)
(* only at x.25 and x.75.  Times are counted in half days.                 *)
(***************************************************************************)
EXTENDS Integers, Sequences, FiniteSets

\* ------------------------------------------------------------------ bounds

\* Most reviews the provider's feed holds.
MaxReviews == 3
\* Reviews per page (the perPage query parameter, scaled down).
PerPage == 2
\* Largest limit a caller passes; the smallest is -1.
MaxLimit == 2
\* Most page fetches followed in one run (a feed whose links loop never ends).
MaxFetches == 3
\* Most half days that pass while one request runs.
MaxTicks == 1
\* The wall clock, in half days, when the request arrives.
Clock0 == 731

\* --------------------------------------------------------------- arithmetic

SCALE == 2^10

\* a / b rounded to the nearest integer (a >= 0, b > 0), halves upwards.
RoundDiv(a, b) == (2 * a + b) \div (2 * b)

RECURSIVE Sum(_)
\* sum(list)
Sum(s) == IF s = <<>> THEN 0 ELSE Head(s) + Sum(Tail(s))

\* math.log(x) for x = x2 / 2, x2 in 2..32, in fixed point.
LnHalves ==
  << 0, 415, 710, 938, 1125, 1283, 1420, 1540, 1648, 1746, 1835, 1917, 1993,
     2063, 2129, 2191, 2250, 2305, 2358, 2408, 2455, 2501, 2545, 2586, 2627,
     2665, 2702, 2738, 2773, 2807, 2839 >>

\* math.log(x2 / 2)
Ln(x2) == LnHalves[x2 - 1]

\* math.log(v, 1.5) = ln(v) / ln(1.5)
Log15(v) == RoundDiv(Ln(2 * v) * SCALE, Ln(3))

\* 1 - 1 / (1 + exp(-0.004 * (age_days - 182.5))) for age_days in 0..370.
LogisticTable ==
  << 691, 690, 689, 688, 687, 686, 686, 685, 684, 683, 682, 681, 680, 679, 678, 677, 676, 676, 675, 674,
     673, 672, 671, 670, 669, 668, 667, 666, 665, 664, 663, 663, 662, 661, 660, 659, 658, 657, 656, 655,
     654, 653, 652, 651, 650, 649, 648, 647, 646, 646, 645, 644, 643, 642, 641, 640, 639, 638, 637, 636,
     635, 634, 633, 632, 631, 630, 629, 628, 627, 626, 625, 624, 623, 622, 621, 620, 619, 618, 617, 616,
     616, 615, 614, 613, 612, 611, 610, 609, 608, 607, 606, 605, 604, 603, 602, 601, 600, 599, 598, 597,
     596, 595, 594, 593, 592, 591, 590, 589, 588, 587, 586, 585, 584, 583, 582, 581, 580, 579, 578, 577,
     576, 575, 574, 573, 572, 571, 570, 569, 568, 567, 566, 565, 564, 563, 562, 560, 559, 558, 557, 556,
     555, 554, 553, 552, 551, 550, 549, 548, 547, 546, 545, 544, 543, 542, 541, 540, 539, 538, 537, 536,
     535, 534, 533, 532, 531, 530, 529, 528, 527, 526, 525, 524, 523, 522, 521, 520, 519, 518, 517, 516,
     515, 514, 513, 511, 510, 509, 508, 507, 506, 505, 504, 503, 502, 501, 500, 499, 498, 497, 496, 495,
     494, 493, 492, 491, 490, 489, 488, 487, 486, 485, 484, 483, 482, 481, 480, 479, 478, 477, 476, 475,
     474, 473, 472, 471, 470, 469, 468, 467, 466, 465, 464, 462, 461, 460, 459, 458, 457, 456, 455, 454,
     453, 452, 451, 450, 449, 448, 447, 446, 445, 444, 443, 442, 441, 440, 439, 438, 437, 436, 435, 434,
     433, 432, 431, 430, 429, 428, 427, 426, 425, 424, 423, 422, 421, 420, 419, 418, 417, 416, 415, 414,
     413, 412, 411, 410, 409, 408, 408, 407, 406, 405, 404, 403, 402, 401, 400, 399, 398, 397, 396, 395,
     394, 393, 392, 391, 390, 389, 388, 387, 386, 385, 384, 383, 382, 381, 380, 379, 378, 378, 377, 376,
     375, 374, 373, 372, 371, 370, 369, 368, 367, 366, 365, 364, 363, 362, 361, 361, 360, 359, 358, 357,
     356, 355, 354, 353, 352, 351, 350, 349, 348, 348, 347, 346, 345, 344, 343, 342, 341, 340, 339, 338,
     338, 337, 336, 335, 334, 333, 332, 331, 330, 329, 329 >>

\* ---------------------------------------------------------- review scoring

\* _score_stars: (stars - 1) * 0.25
ScoreStars(stars) == (stars - 1) * (SCALE \div 4)

\* (now - datetime_obj).days: whole days, rounded towards minus infinity.
AgeDays(created_at, now_) == (now_ - created_at) \div 2

\* _score_date: the logistic value of the review's age, turned round so that
\* a new review is near 1.
ScoreDate(created_at, now_) == LogisticTable[AgeDays(created_at, now_) + 1]

\* _score_review: (aged_score, max_score)
ScoreReview(stars, created_at, now_) ==
  LET total_score == ScoreStars(stars)
      date_score  == ScoreDate(created_at, now_)
  IN  [score |-> RoundDiv(total_score * date_score, SCALE), max_score |-> date_score]

\* ------------------------------------------------------------- thresholds

starting_score == 6

\* _max_score_threshold: log(n + 0) + (6 - log(0 + 1))
MaxScoreThreshold(number_of_reviews) ==
  LET x_translation == 0
      y_translation == starting_score * SCALE - Ln(2 * (x_translation + 1))
  IN  Ln(2 * (number_of_reviews + x_translation)) + y_translation

\* _min_score_threshold: -log(n + 5, 1.5) + (6 + log(6, 1.5))
MinScoreThreshold(number_of_reviews) ==
  LET x_translation == 5
      y_translation == starting_score * SCALE - (0 - Log15(x_translation + 1))
  IN  (0 - Log15(number_of_reviews + x_translation)) + y_translation

\* The score let through unchecked.
CheckScoreThresholdNone(score, number_of_reviews) == score

\* _check_score_threshold
CheckScoreThreshold(score, number_of_reviews) ==
  LET min_score == MinScoreThreshold(number_of_reviews)
      max_score == MaxScoreThreshold(number_of_reviews)
  IN  IF min_score <= score /\ score <= max_score THEN score
      ELSE IF score < min_score THEN min_score
      ELSE max_score

\* A calculation that answers 0 when nothing was counted.
CalculateTrustscoreNeutral(scores, max_scores) ==
  IF Sum(max_scores) = 0
    THEN [raises |-> "", value |-> 0]
    ELSE [raises |-> "",
          value  |-> RoundDiv(Sum(scores) * SCALE, Sum(max_scores)) * 10]

\* _calculate_trustscore: sum(scores) / sum(max_scores) * 10, then the
\* threshold check.  The division raises ZeroDivisionError when the divisor
\* is 0, which it is when nothing was counted.
CalculateTrustscore(scores, max_scores) ==
  IF Sum(max_scores) = 0
    THEN [raises |-> "ZeroDivisionError", value |-> 0]
    ELSE [raises |-> "",
          value  |-> CheckScoreThreshold(
                       RoundDiv(Sum(scores) * SCALE, Sum(max_scores)) * 10,
                       Len(scores))]

\* round(trustscore, 1) on a float: the nearest tenth, an exact tie going to
\* the even tenth.  The decimal context set on the line before it does not
\* take part in rounding a float.  The result is in tenths.
RoundOneDecimal(x) ==
  LET q == (x * 10) \div SCALE
      r == (x * 10) % SCALE
  IN  IF 2 * r < SCALE THEN q
      ELSE IF 2 * r > SCALE THEN q + 1
      ELSE IF q % 2 = 0 THEN q ELSE q + 1

\* ------------------------------------------------------------ the provider

\* The reviews a feed is made of: what a review's stars, createdAt and
\* countsTowardsTrustScore fields hold.
ReviewKinds ==
  { [stars |-> 5, createdAt |-> 730, countsTowardsTrustScore |-> TRUE],
    [stars |-> 2, createdAt |-> 730, countsTowardsTrustScore |-> TRUE],
    [stars |-> 4, createdAt |-> 0,   countsTowardsTrustScore |-> TRUE],
    [stars |-> 1, createdAt |-> 730, countsTowardsTrustScore |-> FALSE] }

\* Sequences over S of length 0..n.
SeqsUpTo(S, n) == UNION { [1..k -> S] : k \in 0..n }

\* Pages the provider cuts a feed into: PerPage reviews a page, one empty
\* page for an empty feed.
NumPages(f) == IF Len(f) = 0 THEN 1 ELSE (Len(f) + PerPage - 1) \div PerPage

\* Position in the feed of review i of page p.
FeedPos(p, i) == (p - 1) * PerPage + i

\* The reviews of page p.
PageReviews(f, p) ==
  LET last == IF p * PerPage < Len(f) THEN p * PerPage ELSE Len(f)
  IN  SubSeq(f, FeedPos(p, 1), last)

NextLink(p) == [rel |-> "next-page", href |-> p]

\* The links of page p of n as the provider forms them: a link to the page
\* after it.
ChainLinks(p, n) == IF p < n THEN << NextLink(p + 1) >> ELSE << >>

\* The links lists a page may carry: the plain one, one that also holds a
\* link of another rel, and one whose last next-page link leads back to the
\* first page.
LinkChoices(p, n) ==
  { ChainLinks(p, n),
    << [rel |-> "current-page", href |-> p] >> \o ChainLinks(p, n),
    ChainLinks(p, n) \o << NextLink(1) >> }

LinkLists(n) ==
  { l \in [1..n -> UNION { LinkChoices(p, n) : p \in 1..n }] :
      \A p \in 1..n : l[p] \in LinkChoices(p, n) }

NoData == [none |-> TRUE]

\* What the provider may answer to the request for page p: nothing (the
\* transport fails), a body that is no JSON, or a JSON body, whole or with
\* one of its two fields missing, under a 2xx or a 5xx status.
PageResponses(f, l, p) ==
  LET whole == [reviews |-> PageReviews(f, p), links |-> l[p]]
  IN  { [sent |-> FALSE, status |-> 0, is_json |-> FALSE, body |-> NoData],
        [sent |-> TRUE, status |-> 500, is_json |-> FALSE, body |-> NoData] }
      \cup
      { [sent |-> TRUE, status |-> s, is_json |-> TRUE, body |-> b] :
          s \in {200, 500},
          b \in { whole, [reviews |-> whole.reviews], [links |-> whole.links] } }

\* What the provider may answer to the business unit lookup.
LookupResponses ==
  { [sent |-> FALSE, status |-> 0, is_json |-> FALSE, body |-> NoData],
    [sent |-> TRUE, status |-> 404, is_json |-> FALSE, body |-> NoData] }
  \cup
  { [sent |-> TRUE, status |-> s, is_json |-> TRUE, body |-> b] :
      s \in {200, 404}, b \in { [id |-> "U1"], [message |-> "not found"] } }

\* An answer that is a failure of the upstream call: no answer, a status
\* outside 2xx, or a body that lacks a field the caller reads.
FailedResponse(resp, fields) ==
  \/ ~resp.sent
  \/ resp.status \notin 200..299
  \/ ~resp.is_json
  \/ \E k \in fields : k \notin DOMAIN resp.body

\* ------------------------------------------------------------------ state

VARIABLES
  feed,                 \* the provider's reviews of the unit, in its order
  links,                \* the links list of each page
  clock,                \* the wall clock (datetime.now()), in half days
  limit,                \* event['limit']
  pc,                   \* where the request is
  business_unit,        \* self.business_unit
  url, now, scores_list, max_scores_list, review_count,
  review_count_reached, has_next,
  data,                 \* the page being processed
  i,                    \* index in data['reviews'] of the next review
  trustscore,           \* the score before rounding
  outcome,              \* "none", "score" (a value was returned), "error"
  error,                \* the exception that ended the request
  result,               \* the value returned, in tenths
  fetched,              \* history: the pages requested, in order
  counted,              \* history: feed positions of the reviews counted
  upstream_failed,      \* history: some upstream call has failed
  decimal_rounding      \* decimal.getcontext().rounding of the thread

vars == << feed, links, clock, limit, pc, business_unit, url, now, scores_list,
           max_scores_list, review_count, review_count_reached, has_next,
           data, i, trustscore, outcome, error, result, fetched, counted,
           upstream_failed, decimal_rounding >>

world == << feed, links, limit >>
locals == << url, now, scores_list, max_scores_list, review_count,
             review_count_reached, has_next, data, i >>

Init ==
  /\ feed \in SeqsUpTo(ReviewKinds, MaxReviews)
  /\ links \in LinkLists(NumPages(feed))
  /\ limit \in -1..MaxLimit
  /\ clock = Clock0
  /\ pc = "init"
  /\ business_unit = ""
  /\ url = 0 /\ now = 0
  /\ scores_list = << >> /\ max_scores_list = << >>
  /\ review_count = 0
  /\ review_count_reached = FALSE /\ has_next = FALSE
  /\ data = NoData /\ i = 0
  /\ trustscore = 0
  /\ outcome = "none" /\ error = "" /\ result = 0
  /\ fetched = << >> /\ counted = << >>
  /\ upstream_failed = FALSE
  /\ decimal_rounding = "ROUND_HALF_EVEN"

\* ------------------------------------------------------------- operations

\* _get_json: requests.get raises when no answer comes, response.json()
\* raises when the body is no JSON; the status is not looked at.
GetJson(resp) ==
  IF ~resp.sent THEN [raises |-> "ConnectionError", json |-> NoData]
  ELSE IF ~resp.is_json THEN [raises |-> "JSONDecodeError", json |-> NoData]
  ELSE [raises |-> "", json |-> resp.body]

\* An exception leaves get_trustscore, or the constructor, and the handler.
Raise(e) ==
  /\ pc' = "done"
  /\ outcome' = "error"
  /\ error' = e
  /\ UNCHANGED << trustscore, result >>

\* lambda_handler up to the constructor: TrustPilot(domain) looks the
\* business unit up.
Construct ==
  /\ UNCHANGED decimal_rounding
  /\ pc = "init"
  /\ \E resp \in LookupResponses :
       LET r == GetJson(resp) IN
       /\ upstream_failed' = FailedResponse(resp, {"id"})
       /\ IF r.raises # "" THEN
            Raise(r.raises) /\ UNCHANGED business_unit
          ELSE IF "id" \notin DOMAIN r.json THEN
            Raise("KeyError") /\ UNCHANGED business_unit
          ELSE
            /\ business_unit' = r.json.id
            /\ pc' = "start"
            /\ UNCHANGED << outcome, error, trustscore, result >>
  /\ UNCHANGED << world, clock, locals, fetched, counted >>

\* get_trustscore up to the loop: the first url, now, the empty accumulators.
Start ==
  /\ UNCHANGED decimal_rounding
  /\ pc = "start"
  /\ url' = 1
  /\ now' = clock
  /\ scores_list' = << >> /\ max_scores_list' = << >>
  /\ review_count' = 0
  /\ review_count_reached' = FALSE
  /\ has_next' = TRUE
  /\ pc' = "loop"
  /\ UNCHANGED << world, clock, business_unit, data, i, trustscore, outcome,
                  error, result, fetched, counted, upstream_failed >>

\* A while condition that looks at has_next alone.
LoopContinuesIgnoringCap(reached, next) == next

\* The while condition.
LoopContinues(reached, next) == (~reached) /\ next

\* One turn of the while loop begins: the page at url is requested and its
\* reviews are about to be gone through.
Fetch ==
  /\ UNCHANGED decimal_rounding
  /\ pc = "loop"
  /\ LoopContinues(review_count_reached, has_next)
  /\ Len(fetched) < MaxFetches
  /\ fetched' = Append(fetched, url)
  /\ \E resp \in PageResponses(feed, links, url) :
       LET r == GetJson(resp) IN
       /\ upstream_failed' =
            (upstream_failed \/ FailedResponse(resp, {"reviews", "links"}))
       /\ IF r.raises # "" THEN
            Raise(r.raises) /\ UNCHANGED << data, i >>
          ELSE IF "reviews" \notin DOMAIN r.json THEN
            Raise("KeyError") /\ data' = r.json /\ UNCHANGED i
          ELSE
            /\ data' = r.json
            /\ i' = 1
            /\ pc' = "review"
            /\ UNCHANGED << outcome, error, trustscore, result >>
  /\ UNCHANGED << world, clock, business_unit, url, now, scores_list,
                  max_scores_list, review_count, review_count_reached,
                  has_next, counted >>

\* Every review taken as counting.
CountsAlways(review) == TRUE

\* if review['countsTowardsTrustScore']
Counts(review) == review.countsTowardsTrustScore

\* The limit test taken one review late.
LimitReachedLate(count, lim) == count > lim

\* if review_count >= limit
LimitReached(count, lim) == count >= lim

\* The clock read again for every review.
AgeReferenceClock == clock

\* The time a review's age is taken against: the now argument.
AgeReference == now

\* A review that counts: it is scored, appended and counted, and the loop
\* over the page is left when the limit is reached.
CountReview ==
  /\ UNCHANGED decimal_rounding
  /\ pc = "review"
  /\ i <= Len(data.reviews)
  /\ Counts(data.reviews[i])
  /\ LET review == data.reviews[i]
         s == ScoreReview(review.stars, review.createdAt, AgeReference)
     IN  /\ scores_list' = Append(scores_list, s.score)
         /\ max_scores_list' = Append(max_scores_list, s.max_score)
  /\ review_count' = review_count + 1
  /\ counted' = Append(counted, FeedPos(url, i))
  /\ IF LimitReached(review_count + 1, limit)
       THEN review_count_reached' = TRUE /\ pc' = "links" /\ UNCHANGED i
       ELSE i' = i + 1 /\ UNCHANGED << review_count_reached, pc >>
  /\ UNCHANGED << world, clock, business_unit, url, now, has_next, data,
                  trustscore, outcome, error, result, fetched, upstream_failed >>

\* A review that does not count is passed over.
SkipReview ==
  /\ UNCHANGED decimal_rounding
  /\ pc = "review"
  /\ i <= Len(data.reviews)
  /\ ~Counts(data.reviews[i])
  /\ i' = i + 1
  /\ UNCHANGED << world, clock, pc, business_unit, url, now, scores_list,
                  max_scores_list, review_count, review_count_reached,
                  has_next, data, trustscore, outcome, error, result, fetched,
                  counted, upstream_failed >>

RECURSIVE NextPage(_)
\* The loop over data['links']: the href of the last link whose rel is
\* next-page, 0 when there is none.
NextPage(ls) ==
  IF ls = << >> THEN 0
  ELSE LET rest == NextPage(Tail(ls))
       IN  IF rest # 0 THEN rest
           ELSE IF Head(ls).rel = "next-page" THEN Head(ls).href ELSE 0

\* The page's reviews are done with, by exhaustion or by break.
AfterReviews == pc = "links" \/ (pc = "review" /\ i > Len(data.reviews))

\* The end of a turn of the while loop: has_next and url from the links.
FollowLinks ==
  /\ UNCHANGED decimal_rounding
  /\ AfterReviews
  /\ "links" \in DOMAIN data
  /\ has_next' = (NextPage(data.links) # 0)
  /\ url' = IF NextPage(data.links) # 0 THEN NextPage(data.links) ELSE url
  /\ pc' = "loop"
  /\ UNCHANGED << world, clock, business_unit, now, scores_list,
                  max_scores_list, review_count, review_count_reached, data, i,
                  trustscore, outcome, error, result, fetched, counted,
                  upstream_failed >>

\* data['links'] of a body without links raises KeyError.
LinksMissing ==
  /\ UNCHANGED decimal_rounding
  /\ AfterReviews
  /\ "links" \notin DOMAIN data
  /\ Raise("KeyError")
  /\ UNCHANGED << world, clock, business_unit, locals, fetched, counted,
                  upstream_failed >>

\* After the loop: the score is calculated, the rounding of the thread's
\* decimal context is set, and the score is rounded and returned.
Finish ==
  /\ pc = "loop"
  /\ ~LoopContinues(review_count_reached, has_next)
  /\ LET c == CalculateTrustscore(scores_list, max_scores_list) IN
       IF c.raises # "" THEN Raise(c.raises) /\ UNCHANGED decimal_rounding
       ELSE /\ trustscore' = c.value
            /\ decimal_rounding' = "ROUND_HALF_UP"
            /\ result' = RoundOneDecimal(c.value)
            /\ outcome' = "score"
            /\ pc' = "done"
            /\ UNCHANGED error
  /\ UNCHANGED << world, clock, business_unit, locals, fetched, counted,
                  upstream_failed >>

\* Time passes while a call to the provider is under way.
Tick ==
  /\ UNCHANGED decimal_rounding
  /\ pc \in {"init", "start", "loop"}
  /\ clock < Clock0 + MaxTicks
  /\ clock' = clock + 1
  /\ UNCHANGED << world, pc, business_unit, locals, trustscore, outcome,
                  error, result, fetched, counted, upstream_failed >>

Next ==
  \/ Construct
  \/ Start
  \/ Fetch
  \/ CountReview
  \/ SkipReview
  \/ FollowLinks
  \/ LinksMissing
  \/ Finish
  \/ Tick

Spec == Init /\ [][Next]_vars

\* ------------------------------------------------------------- properties

\* Feed positions of the reviews whose countsTowardsTrustScore is true, in
\* feed order.
Qualifying ==
  SelectSeq([k \in 1..Len(feed) |-> k],
            LAMBDA k : feed[k].countsTowardsTrustScore)

Min2(a, b) == IF a <= b THEN a ELSE b

\* The page that holds feed position k.
PageOf(k) == (k - 1) \div PerPage + 1

\* Every page links to the page after it and the last page to none.
ChainFeed ==
  \A p \in DOMAIN links :
    NextPage(links[p]) = (IF p < NumPages(feed) THEN p + 1 ELSE 0)

\* get_trustscore has begun.
Running == pc \notin {"init", "start"}

\* The while loop has come to its end (no exception left it).
LoopFinished ==
  pc = "done" /\ (outcome = "score" \/ error = "ZeroDivisionError")

\* C1: for a chain of pages and a limit >= 1 the count never exceeds the
\* limit, the two lists are as long as the count, and when the loop has
\* ended the count is min(limit, qualifying reviews of the feed) and the
\* reviews counted are the first that many qualifying ones, in feed order.
C1_CapEnforced ==
  (limit >= 1 /\ ChainFeed) =>
    /\ review_count <= limit
    /\ Len(scores_list) = review_count
    /\ Len(max_scores_list) = review_count
    /\ LoopFinished =>
         /\ review_count = Min2(limit, Len(Qualifying))
         /\ counted = SubSeq(Qualifying, 1, review_count)

\* A run over two pages is cut off by the limit before the last qualifying
\* review.
C1_Witness ==
  /\ outcome = "score" /\ ChainFeed
  /\ limit = 2 /\ Len(Qualifying) = 3 /\ review_count = 2
  /\ NumPages(feed) = 2

\* C2: from the moment the count has reached a limit >= 1 no review is
\* scored and no page is fetched; on a chain of pages the pages fetched are
\* then the pages 1..k, k the page of the limit-th qualifying review.
C2_StopsAtCap ==
  /\ [][(Running /\ limit >= 1 /\ review_count >= limit) =>
          UNCHANGED << fetched, counted, scores_list, max_scores_list,
                       review_count >>]_vars
  /\ []((Running /\ limit >= 1 /\ review_count >= limit /\ ChainFeed) =>
          fetched = [p \in 1..PageOf(Qualifying[limit]) |-> p])

\* The limit was reached on a page that has a next-page link, which was
\* not followed.
C2_Witness ==
  /\ outcome = "score" /\ limit >= 1 /\ review_count_reached
  /\ has_next /\ ChainFeed
  /\ Len(fetched) = 1 /\ NumPages(feed) = 2

\* What get_trustscore returns for the qualifying reviews q alone, scored
\* against the time t: the first max(limit, 1) of them at most.
ScoreOf(q, lim, t) ==
  LET n  == Min2(IF lim >= 1 THEN lim ELSE 1, Len(q))
      sc == [k \in 1..n |-> ScoreReview(feed[q[k]].stars, feed[q[k]].createdAt, t)]
      c  == CalculateTrustscore([k \in 1..n |-> sc[k].score],
                                [k \in 1..n |-> sc[k].max_score])
  IN  IF c.raises # "" THEN << "error", 0 >>
      ELSE << "score", RoundOneDecimal(c.value) >>

\* C3: going past a review that does not count changes neither list nor the
\* count, and the outcome of a chain feed is the outcome of its qualifying
\* reviews alone.
C3_NonCountingIgnored ==
  /\ [][(pc = "review" /\ i <= Len(data.reviews)
          /\ ~data.reviews[i].countsTowardsTrustScore) =>
          UNCHANGED << scores_list, max_scores_list, review_count, counted >>]_vars
  /\ []((LoopFinished /\ ChainFeed) =>
          << outcome, result >> = ScoreOf(Qualifying, limit, now))

\* A score was returned although a review that does not count came before
\* the last counted one.
C3_Witness ==
  /\ outcome = "score" /\ ChainFeed /\ limit >= 2
  /\ \E a \in 1..Len(feed) :
       /\ ~feed[a].countsTowardsTrustScore
       /\ a < counted[Len(counted)]

\* C4 as claimed: a request with a limit of 0 or less, every upstream call
\* of which succeeded, ends in an error with no review counted.
C4_InvalidLimitRejected ==
  (limit <= 0 /\ ~upstream_failed /\ pc = "done") =>
    (outcome = "error" /\ review_count = 0)

\* sum(scores_list) / sum(max_scores_list) * 10, the score before the
\* threshold check.
RawScore == RoundDiv(Sum(scores_list) * SCALE, Sum(max_scores_list)) * 10

RoundHalfUp(x) == (2 * 10 * x + SCALE) \div (2 * SCALE)

\* C6 as claimed: the value returned is the score before rounding, rounded
\* to one decimal place with a tie going to the higher tenth.
C6_RoundsHalfUp ==
  outcome = "score" => result = RoundHalfUp(trustscore)

\* C7: a run that counts no review returns no score; it ends in an error.
C7_NoReviewsIsAnError ==
  /\ outcome = "score" => review_count >= 1
  /\ (LoopFinished /\ review_count = 0) =>
       (outcome = "error" /\ error = "ZeroDivisionError")

\* Pages were read, none of their reviews counts, the run ends in the error.
C7_Witness ==
  /\ pc = "done" /\ error = "ZeroDivisionError"
  /\ Len(feed) >= 1 /\ Len(fetched) >= 1 /\ review_count = 0

\* C8 as claimed (for a valid limit): after a failed upstream call no score
\* is returned, and after a failed lookup no page is fetched.
C8_FailureAborts ==
  (upstream_failed /\ limit >= 1) =>
    (outcome # "score" /\ (business_unit = "" => fetched = << >>))

\* C9 as claimed, for every shape of the links lists: with a valid limit, a
\* feed that holds a qualifying review and no upstream failure, no page is
\* fetched twice.
C9_EachPageOnce ==
  (limit >= 1 /\ Len(Qualifying) >= 1 /\ ~upstream_failed) =>
    \A a, b \in 1..Len(fetched) : fetched[a] = fetched[b] => a = b

\* C10: now is set once, to the clock, before any page is fetched, and does
\* not change afterwards; every counted review's pair of scores is the
\* pair computed from its age against that value.
C10_NowCapturedOnce ==
  /\ [][/\ (pc = "start" /\ pc' # "start") => (now' = clock /\ fetched' = << >>)
        /\ Running => now' = now]_vars
  /\ [](Running =>
          \A k \in 1..Len(counted) :
            LET r == feed[counted[k]]
                s == ScoreReview(r.stars, r.createdAt, now)
            IN  scores_list[k] = s.score /\ max_scores_list[k] = s.max_score)

\* Reviews of two pages were counted while the clock moved on after now was
\* taken.
C10_Witness ==
  /\ outcome = "score" /\ clock > now
  /\ Len(fetched) >= 2 /\ Len(counted) >= 2
  /\ PageOf(counted[1]) # PageOf(counted[Len(counted)])

\* C11 as claimed: a call changes no state that outlives it; in a request
\* with a valid limit and no upstream failure the rounding of the thread's
\* decimal context is after every step what it was before.
C11_Stateless ==
  [][(limit >= 1 /\ ~upstream_failed) =>
       decimal_rounding' = decimal_rounding]_vars

====
